---- MODULE Spec2Model ----
(***************************************************************************)
(* Model of podiffutils: the order-preserving set matchers (SetMatcher2,   *)
(* SetMatcher3), the scalar and unit mergers of DiffUtils and the catalog  *)
(* merger DiffUtils.merge.                                                 *)
(*                                                                         *)
(* Python's None is the empty tuple and a present value v is the tuple     *)
(* <<v>>, so that an optional value compares with any other one.           *)
(***************************************************************************)
EXTENDS Integers, Sequences, FiniteSets, TLC

VARIABLES
    base, local, remote, \* the three inputs of the operation under study
    old, new,            \* the two inputs of SetMatcher2
    filename,            \* the filename attribute of the stores of local and remote
    item_done,           \* keys of item_map whose slot has done = True
    bw, lw, rw,          \* walker positions (index of _current; valid iff <= Len)
    emitted,             \* the tuples yielded so far by match()
    pc,                  \* control position of the running operation
    result               \* what the operation returned (or the error raised)

vars == <<base, local, remote, old, new, filename, item_done, bw, lw, rw, emitted, pc, result>>

---------------------------------------------------------------------------
(* Bounds and input domains *)

\* longest input sequence handed to a set matcher
MaxLen == 2

\* keys of the units handed to the set matchers
MKeys == {"a", "b", "c"}

None == <<>>
Some(v) == <<v>>

\* the filename attribute of the local and of the remote store: None when the
\* store has no such attribute
NoFiles == [ local |-> None, remote |-> None ]

StoreFiles == [ local : {None, Some("l.po")}, remote : {None, Some("r.po")} ]

\* a matcher unit as in test_set_matcher3: 'd' / '~d' is key d, deleted or not
MUnits == [key : MKeys, obsolete : BOOLEAN]

\* the units of base: match() never applies deletedfunc to a unit of base
\* (lines 193-197), so base is drawn from the units that are not deleted
MBaseUnits == [key : MKeys, obsolete : {FALSE}]

\* sequences of at most n units of S in which no key occurs twice
KeyUniqueSeqs(S, n) ==
    UNION { { s \in [1..m -> S] :
                \A i, j \in 1..m : i # j => s[i].key # s[j].key } : m \in 0..n }

---------------------------------------------------------------------------
(* _Walker *)

WalkerValid(seq, w) == w <= Len(seq)

WalkerNext(seq, w) == IF w <= Len(seq) THEN w + 1 ELSE w

---------------------------------------------------------------------------
(* _SetMatcherBase: keyfunc, deletedfunc and the item map.                 *)
(* kind = "unit"  : keyfunc = getid, deletedfunc = isobsolete (merge, and  *)
(*                  the '~' functions of the test battery)                 *)
(* kind = "value" : the default lambdas, identity and constant False       *)

keyfunc(kind, unit) == IF kind = "value" THEN unit ELSE unit.key

deletedfunc(kind, unit) == IF kind = "value" THEN FALSE ELSE unit.obsolete

KeysOf(kind, units) == { keyfunc(kind, units[i]) : i \in 1..Len(units) }

Max(S) == CHOOSE x \in S : \A y \in S : y <= x

\* the field of a key's slot after _fill_item_map(field, units): the last unit
\* of units with that key, None when there is none
FillItemMap(kind, units, key) ==
    LET idx == { i \in 1..Len(units) : keyfunc(kind, units[i]) = key }
    IN  IF idx = {} THEN None ELSE Some(units[Max(idx)])

\* advance a walker past every slot that is already done
RECURSIVE SkipDone(_, _, _, _)
SkipDone(kind, seq, w, done) ==
    IF w <= Len(seq) /\ keyfunc(kind, seq[w]) \in done
    THEN SkipDone(kind, seq, w + 1, done)
    ELSE w

---------------------------------------------------------------------------
(* SetMatcher3 *)

Item3(kind, b, l, r, key) ==
    [ base   |-> FillItemMap(kind, b, key),
      local  |-> FillItemMap(kind, l, key),
      remote |-> FillItemMap(kind, r, key) ]

Triple(i) == <<i.base, i.local, i.remote>>

\* mutant of not_local: a unit deleted in local is injected from remote even
\* when remote deleted it too
not_local_AnyDeleted(kind, i) ==
    \/ i.local = None
    \/ deletedfunc(kind, i.local[1])

not_local(kind, i) ==
    \/ i.local = None
    \/ /\ deletedfunc(kind, i.local[1])
       /\ ~deletedfunc(kind, i.remote[1])

\* the state of a running match(): s.done, s.bw, s.lw, s.rw, s.emitted, s.pc
M3Start ==
    [ done |-> {}, bw |-> 1, lw |-> 1, rw |-> 1, emitted |-> <<>>, pc |-> "loop" ]

\* mutant of M3Sweep: emitted units are skipped in the remote walker only
M3Sweep_RemoteOnly(kind, l, r, s) ==
    [ s EXCEPT !.rw = SkipDone(kind, r, s.rw, s.done) ]

M3Sweep(kind, l, r, s) ==
    [ s EXCEPT !.rw = SkipDone(kind, r, s.rw, s.done),
               !.lw = SkipDone(kind, l, s.lw, s.done) ]

\* mutant of M3LoopYield: the local rule is tried before the remote-inject
\* rule
M3LoopYield_LocalFirst(kind, b, l, r, s) ==
    IF WalkerValid(l, s.lw)
    THEN [ s EXCEPT !.emitted = Append(@, Triple(Item3(kind, b, l, r,
                                                   keyfunc(kind, l[s.lw])))),
                    !.pc = "yield@212" ]
    ELSE [ s EXCEPT !.emitted = Append(@, Triple(Item3(kind, b, l, r,
                                                   keyfunc(kind, r[s.rw])))),
                    !.pc = "yield@205" ]

\* an iteration of the main loop up to its yield, lines 199-205 and 210-212:
\* the triple is handed to the consumer while the slot is not yet done and no
\* walker has moved.  When neither rule applies the iteration yields nothing
\* and runs the sweep of lines 216-219.
M3LoopYield(kind, b, l, r, s) ==
    IF WalkerValid(r, s.rw)
       /\ not_local(kind, Item3(kind, b, l, r, keyfunc(kind, r[s.rw])))
    THEN LET k == keyfunc(kind, r[s.rw])
         IN  IF k \in s.done
             THEN [ s EXCEPT !.pc = "AssertionError" ]
             ELSE [ s EXCEPT !.emitted = Append(@, Triple(Item3(kind, b, l, r, k))),
                             !.pc = "yield@205" ]
    ELSE IF WalkerValid(l, s.lw)
    THEN LET k == keyfunc(kind, l[s.lw])
         IN  IF k \in s.done
             THEN [ s EXCEPT !.pc = "AssertionError" ]
             ELSE [ s EXCEPT !.emitted = Append(@, Triple(Item3(kind, b, l, r, k))),
                             !.pc = "yield@212" ]
    ELSE M3Sweep(kind, l, r, s)

\* the rest of the iteration, run when the consumer asks for the next triple:
\* lines 206-207 after the yield of line 205, lines 213-214 after the yield of
\* line 212, then the sweep of lines 216-219
M3LoopResume(kind, b, l, r, s) ==
    IF s.pc = "yield@205"
    THEN M3Sweep(kind, l, r,
                 [ s EXCEPT !.done = @ \cup {keyfunc(kind, r[s.rw])},
                            !.rw = WalkerNext(r, @),
                            !.pc = "loop" ])
    ELSE M3Sweep(kind, l, r,
                 [ s EXCEPT !.done = @ \cup {keyfunc(kind, l[s.lw])},
                            !.lw = WalkerNext(l, @),
                            !.pc = "loop" ])

\* one iteration of the main loop, lines 199-219, under a consumer that asks
\* for the next triple
M3Loop(kind, b, l, r, s) ==
    LET resumed(y) == IF y.pc \in {"yield@205", "yield@212"}
                      THEN M3LoopResume(kind, b, l, r, y)
                      ELSE y
    IN  resumed(M3LoopYield(kind, b, l, r, s))

\* mutant of M3DrainYield: the slots left in base are marked done without
\* being emitted
M3DrainYield_NoEmit(kind, b, l, r, s) ==
    [ s EXCEPT !.done = @ \cup {keyfunc(kind, b[s.bw])},
               !.bw = WalkerNext(b, @) ]

\* an iteration of the base drain up to its yield, lines 222-225; a slot that
\* is done already yields nothing and the iteration ends at line 228
M3DrainYield(kind, b, l, r, s) ==
    LET k == keyfunc(kind, b[s.bw])
    IN  IF k \notin s.done
        THEN [ s EXCEPT !.emitted = Append(@, Triple(Item3(kind, b, l, r, k))),
                        !.pc = "yield@225" ]
        ELSE [ s EXCEPT !.done = @ \cup {k},
                        !.bw = WalkerNext(b, @) ]

\* the rest of the iteration after the yield of line 225, lines 226-228
M3DrainResume(kind, b, l, r, s) ==
    [ s EXCEPT !.done = @ \cup {keyfunc(kind, b[s.bw])},
               !.bw = WalkerNext(b, @),
               !.pc = "drain" ]

\* one iteration of the base drain, lines 222-228, under a consumer that asks
\* for the next triple
M3Drain(kind, b, l, r, s) ==
    LET resumed(y) == IF y.pc = "yield@225"
                      THEN M3DrainResume(kind, b, l, r, y)
                      ELSE y
    IN  resumed(M3DrainYield(kind, b, l, r, s))

\* the closing assertions, lines 231-234
M3Verify(kind, b, l, r, s) ==
    IF /\ ~WalkerValid(l, s.lw)
       /\ ~WalkerValid(r, s.rw)
       /\ ~WalkerValid(b, s.bw)
       /\ (KeysOf(kind, b) \cup KeysOf(kind, l) \cup KeysOf(kind, r)) \subseteq s.done
    THEN [ s EXCEPT !.pc = "done" ]
    ELSE [ s EXCEPT !.pc = "AssertionError" ]

\* the next step of match() from state s
M3Step(kind, b, l, r, s) ==
    IF s.pc = "loop"
    THEN IF WalkerValid(l, s.lw) \/ WalkerValid(r, s.rw)
         THEN M3Loop(kind, b, l, r, s)
         ELSE [ s EXCEPT !.pc = "drain" ]
    ELSE IF s.pc = "drain"
    THEN IF WalkerValid(b, s.bw)
         THEN M3Drain(kind, b, l, r, s)
         ELSE M3Verify(kind, b, l, r, s)
    ELSE s

\* match() run to its end: the final state, with pc "done", "AssertionError",
\* or "hang" when an iteration of the main loop changes nothing
RECURSIVE M3Run(_, _, _, _, _)
M3Run(kind, b, l, r, s) ==
    IF s.pc \notin {"loop", "drain"} THEN s
    ELSE LET t == M3Step(kind, b, l, r, s)
         IN  IF t = s THEN [ s EXCEPT !.pc = "hang" ]
             ELSE M3Run(kind, b, l, r, t)

SetMatcher3(kind, b, l, r) == M3Run(kind, b, l, r, M3Start)

---------------------------------------------------------------------------
(* Specification of SetMatcher3.match.  match() is a generator: it runs up  *)
(* to a yield, hands the triple to its consumer and stays suspended there; *)
(* the rest of the iteration runs when the consumer asks for the next      *)
(* triple.  pc is "loop", "drain", the line of the yield match() is        *)
(* suspended at, "done", "AssertionError", or "stopped" once its consumer  *)
(* has stopped asking.                                                     *)

M3State ==
    [ done |-> item_done, bw |-> bw, lw |-> lw, rw |-> rw,
      emitted |-> emitted, pc |-> pc ]

M3Set(s) ==
    /\ item_done' = s.done
    /\ bw' = s.bw
    /\ lw' = s.lw
    /\ rw' = s.rw
    /\ emitted' = s.emitted
    /\ pc' = s.pc

InitMatch3 ==
    /\ base \in KeyUniqueSeqs(MBaseUnits, MaxLen)
    /\ local \in KeyUniqueSeqs(MUnits, MaxLen)
    /\ remote \in KeyUniqueSeqs(MUnits, MaxLen)
    /\ old = <<>>
    /\ new = <<>>
    /\ filename = NoFiles
    /\ item_done = {}
    /\ bw = 1
    /\ lw = 1
    /\ rw = 1
    /\ emitted = <<>>
    /\ pc = "loop"
    /\ result = None

Match3Loop ==
    /\ pc = "loop"
    /\ WalkerValid(local, lw) \/ WalkerValid(remote, rw)
    /\ M3Set(M3LoopYield("unit", base, local, remote, M3State))
    /\ UNCHANGED <<base, local, remote, old, new, filename, result>>

Match3Resume ==
    /\ pc \in {"yield@205", "yield@212"}
    /\ M3Set(M3LoopResume("unit", base, local, remote, M3State))
    /\ UNCHANGED <<base, local, remote, old, new, filename, result>>

Match3LoopEnd ==
    /\ pc = "loop"
    /\ ~(WalkerValid(local, lw) \/ WalkerValid(remote, rw))
    /\ pc' = "drain"
    /\ UNCHANGED <<base, local, remote, old, new, filename, item_done, bw, lw, rw, emitted, result>>

Match3Drain ==
    /\ pc = "drain"
    /\ WalkerValid(base, bw)
    /\ M3Set(M3DrainYield("unit", base, local, remote, M3State))
    /\ UNCHANGED <<base, local, remote, old, new, filename, result>>

Match3DrainResume ==
    /\ pc = "yield@225"
    /\ M3Set(M3DrainResume("unit", base, local, remote, M3State))
    /\ UNCHANGED <<base, local, remote, old, new, filename, result>>

Match3Verify ==
    /\ pc = "drain"
    /\ ~WalkerValid(base, bw)
    /\ M3Set(M3Verify("unit", base, local, remote, M3State))
    /\ UNCHANGED <<base, local, remote, old, new, filename, result>>

\* the consumer leaves its loop while match() is suspended at a yield (in
\* merge, merge_unit raises at line 265): match() is never resumed, the slot
\* it has just emitted stays not done and the walkers stay where they are
Match3Stop ==
    /\ pc \in {"yield@205", "yield@212", "yield@225"}
    /\ pc' = "stopped"
    /\ UNCHANGED <<base, local, remote, old, new, filename, item_done, bw, lw, rw, emitted, result>>

\* the steps match() takes by itself, and the steps of its consumer
Match3Generator == Match3Loop \/ Match3LoopEnd \/ Match3Drain \/ Match3Verify

Match3Consumer == Match3Resume \/ Match3DrainResume \/ Match3Stop

NextMatch3 == Match3Generator \/ Match3Consumer

SpecMatch3 == InitMatch3 /\ [][NextMatch3]_vars

---------------------------------------------------------------------------
(* Properties of SetMatcher3.match (checked under SpecMatch3) *)

\* the unit of sequence seq whose key is k, None when seq has no such unit
UnitWithKey(seq, k) ==
    IF \E i \in 1..Len(seq) : seq[i].key = k
    THEN Some(seq[CHOOSE i \in 1..Len(seq) : seq[i].key = k])
    ELSE None

HasKey(seq, k) == \E i \in 1..Len(seq) : seq[i].key = k

AllKeys3 ==
    { base[i].key : i \in 1..Len(base) }
        \cup { local[i].key : i \in 1..Len(local) }
        \cup { remote[i].key : i \in 1..Len(remote) }

\* the key of an emitted tuple: the key of any unit it holds
TupleKey(t) == t[CHOOSE n \in 1..Len(t) : t[n] # None][1].key

EmittedKeyAt(n) == TupleKey(emitted[n])

\* the position at which key k was emitted, 0 when it has not been emitted
PosOf(k) ==
    IF \E n \in 1..Len(emitted) : EmittedKeyAt(n) = k
    THEN CHOOSE n \in 1..Len(emitted) : EmittedKeyAt(n) = k
    ELSE 0

MatchEnded == pc \in {"done", "AssertionError"}

\* C1: no key is ever emitted twice, every emitted triple holds the unit of its
\* key from base, local and remote (None for an input that lacks the key), and
\* when match() has ended every key of base, local and remote has been emitted.
C1_Coverage ==
    /\ \A m, n \in 1..Len(emitted) : m # n => EmittedKeyAt(m) # EmittedKeyAt(n)
    /\ \A n \in 1..Len(emitted) :
          /\ EmittedKeyAt(n) \in AllKeys3
          /\ emitted[n] = << UnitWithKey(base, EmittedKeyAt(n)),
                             UnitWithKey(local, EmittedKeyAt(n)),
                             UnitWithKey(remote, EmittedKeyAt(n)) >>
    /\ MatchEnded => /\ pc = "done"
                     /\ \A k \in AllKeys3 : PosOf(k) > 0
                     /\ Len(emitted) = Cardinality(AllKeys3)

\* a finished match over three distinct keys: one only in base, one shared by
\* local and remote with different units, one in all of local or remote only
C1_Witness ==
    /\ pc = "done"
    /\ Cardinality(AllKeys3) = 3
    /\ \E k \in AllKeys3 : HasKey(base, k) /\ ~HasKey(local, k) /\ ~HasKey(remote, k)
    /\ \E k \in AllKeys3 : /\ HasKey(local, k) /\ HasKey(remote, k)
                           /\ UnitWithKey(local, k) # UnitWithKey(remote, k)
    /\ Len(emitted) = 3

\* the keys of local that the remote-inject rule takes: deleted in local while
\* present and not deleted in remote
Resurrected(k) ==
    /\ HasKey(local, k) /\ HasKey(remote, k)
    /\ UnitWithKey(local, k)[1].obsolete
    /\ ~UnitWithKey(remote, k)[1].obsolete

\* C2 (as stated): any two keys of local are emitted in their local order.
C2_LocalOrderAll ==
    \A i, j \in 1..Len(local) :
        (i < j /\ PosOf(local[j].key) > 0)
            => (PosOf(local[i].key) > 0 /\ PosOf(local[i].key) < PosOf(local[j].key))

\* C2 (amended): any two keys of local, neither of which is deleted in local
\* while present and not deleted in remote, are emitted in their local order.
C2_LocalOrder ==
    \A i, j \in 1..Len(local) :
        (/\ i < j
         /\ ~Resurrected(local[i].key)
         /\ ~Resurrected(local[j].key)
         /\ PosOf(local[j].key) > 0)
            => (PosOf(local[i].key) > 0 /\ PosOf(local[i].key) < PosOf(local[j].key))

\* a finished match in which local and remote hold two shared keys in opposite
\* orders, one of them deleted on both sides, and the emission follows local
C2_Witness ==
    /\ pc = "done"
    /\ Len(local) = 2 /\ Len(remote) = 2
    /\ local[1].key = remote[2].key
    /\ local[2].key = remote[1].key
    /\ local[2].obsolete /\ remote[1].obsolete
    /\ PosOf(local[1].key) = 1
    /\ PosOf(local[2].key) = 2

\* C3: a key of remote that local lacks is emitted right after the last emitted
\* of its remote predecessors, and first of all when it has none.
C3_RemoteInject ==
    \A j \in 1..Len(remote) :
        LET k == remote[j].key
            preds == { PosOf(remote[i].key) : i \in 1..(j - 1) }
        IN  (~HasKey(local, k) /\ PosOf(k) > 0)
               => /\ 0 \notin preds
                  /\ PosOf(k) = 1 + Max(preds \cup {0})

\* parallel additions: local and remote each add a key after a shared one, and
\* the remote addition has been emitted before the local one
C3_Witness ==
    /\ pc = "done"
    /\ Len(local) = 2 /\ Len(remote) = 2
    /\ local[1].key = remote[1].key
    /\ ~HasKey(local, remote[2].key)
    /\ ~HasKey(remote, local[2].key)
    /\ PosOf(remote[1].key) = 1
    /\ PosOf(remote[2].key) = 2
    /\ PosOf(local[2].key) = 3

---------------------------------------------------------------------------
(* SetMatcher2 *)

Item2(kind, o, n, key) ==
    [ old |-> FillItemMap(kind, o, key),
      new |-> FillItemMap(kind, n, key) ]

Pair(i) == <<i.old, i.new>>

not_old(kind, i) ==
    \/ i.old = None
    \/ /\ deletedfunc(kind, i.old[1])
       /\ ~deletedfunc(kind, i.new[1])

\* the state of a running SetMatcher2.match(): s.done, s.ow, s.nw, s.emitted, s.pc
M2Sweep(kind, o, n, s) ==
    [ s EXCEPT !.nw = SkipDone(kind, n, s.nw, s.done),
               !.ow = SkipDone(kind, o, s.ow, s.done) ]

\* the condition of the main loop, line 142
M2LoopCond(o, n, s) == WalkerValid(o, s.ow) /\ WalkerValid(n, s.nw)

\* an iteration of the main loop up to its yield, lines 142-148 and 152-155;
\* when neither rule applies it yields nothing and runs the sweep of lines
\* 159-162
M2LoopYield(kind, o, n, s) ==
    IF WalkerValid(n, s.nw)
       /\ not_old(kind, Item2(kind, o, n, keyfunc(kind, n[s.nw])))
    THEN LET k == keyfunc(kind, n[s.nw])
         IN  IF k \in s.done
             THEN [ s EXCEPT !.pc = "AssertionError" ]
             ELSE [ s EXCEPT !.emitted = Append(@, Pair(Item2(kind, o, n, k))),
                             !.pc = "yield@148" ]
    ELSE IF WalkerValid(o, s.ow)
    THEN LET k == keyfunc(kind, o[s.ow])
         IN  IF k \in s.done
             THEN [ s EXCEPT !.pc = "AssertionError" ]
             ELSE [ s EXCEPT !.emitted = Append(@, Pair(Item2(kind, o, n, k))),
                             !.pc = "yield@155" ]
    ELSE M2Sweep(kind, o, n, s)

\* the rest of the iteration, run when the consumer asks for the next pair:
\* lines 149-150 after the yield of line 148, lines 156-157 after the yield of
\* line 155, then the sweep of lines 159-162
M2LoopResume(kind, o, n, s) ==
    IF s.pc = "yield@148"
    THEN M2Sweep(kind, o, n,
                 [ s EXCEPT !.done = @ \cup {keyfunc(kind, n[s.nw])},
                            !.nw = WalkerNext(n, @),
                            !.pc = "loop" ])
    ELSE M2Sweep(kind, o, n,
                 [ s EXCEPT !.done = @ \cup {keyfunc(kind, o[s.ow])},
                            !.ow = WalkerNext(o, @),
                            !.pc = "loop" ])

\* the closing assertions, lines 165-167
M2Verify(kind, o, n, s) ==
    IF /\ ~WalkerValid(o, s.ow)
       /\ ~WalkerValid(n, s.nw)
       /\ (KeysOf(kind, o) \cup KeysOf(kind, n)) \subseteq s.done
    THEN [ s EXCEPT !.pc = "done" ]
    ELSE [ s EXCEPT !.pc = "AssertionError" ]

---------------------------------------------------------------------------
(* Specification of SetMatcher2.match, suspended at its yields like        *)
(* SetMatcher3.match; ow and nw are held in lw and rw                      *)

M2State == [ done |-> item_done, ow |-> lw, nw |-> rw, emitted |-> emitted, pc |-> pc ]

M2Set(s) ==
    /\ item_done' = s.done
    /\ lw' = s.ow
    /\ rw' = s.nw
    /\ emitted' = s.emitted
    /\ pc' = s.pc

InitMatch2 ==
    /\ old \in KeyUniqueSeqs(MUnits, MaxLen)
    /\ new \in KeyUniqueSeqs(MUnits, MaxLen)
    /\ base = <<>>
    /\ local = <<>>
    /\ remote = <<>>
    /\ filename = NoFiles
    /\ item_done = {}
    /\ bw = 1
    /\ lw = 1
    /\ rw = 1
    /\ emitted = <<>>
    /\ pc = "loop"
    /\ result = None

Match2Loop ==
    /\ pc = "loop"
    /\ M2LoopCond(old, new, M2State)
    /\ M2Set(M2LoopYield("unit", old, new, M2State))
    /\ UNCHANGED <<base, local, remote, old, new, filename, bw, result>>

Match2Resume ==
    /\ pc \in {"yield@148", "yield@155"}
    /\ M2Set(M2LoopResume("unit", old, new, M2State))
    /\ UNCHANGED <<base, local, remote, old, new, filename, bw, result>>

Match2Verify ==
    /\ pc = "loop"
    /\ ~M2LoopCond(old, new, M2State)
    /\ M2Set(M2Verify("unit", old, new, M2State))
    /\ UNCHANGED <<base, local, remote, old, new, filename, bw, result>>

NextMatch2 == Match2Loop \/ Match2Resume \/ Match2Verify

SpecMatch2 == InitMatch2 /\ [][NextMatch2]_vars

AllKeys2 ==
    { old[i].key : i \in 1..Len(old) } \cup { new[i].key : i \in 1..Len(new) }

\* C4: when SetMatcher2.match() has ended, none of its assertions has failed
\* and every key of old and new has been emitted in exactly one pair, which
\* holds the key's unit from old and from new.
C4_TwoWayContract ==
    MatchEnded =>
        /\ pc = "done"
        /\ Len(emitted) = Cardinality(AllKeys2)
        /\ \A k \in AllKeys2 :
              \E n \in 1..Len(emitted) :
                  emitted[n] = << UnitWithKey(old, k), UnitWithKey(new, k) >>

---------------------------------------------------------------------------
(* DiffUtils: results, merge_simple, merge_list *)

\* a returned value, and a raised exception
Return(v) == [ err |-> "", val |-> v ]

Raise(e) == [ err |-> e, val |-> None ]

\* mutant of merge_simple: the first two tests return the unchanged side
merge_simple_KeepBase(b, l, r) ==
    IF b = r THEN Return(r)
    ELSE IF b = l THEN Return(l)
    ELSE IF l = r THEN Return(l)
    ELSE Raise("ValueError")

merge_simple(b, l, r) ==
    IF b = r THEN Return(l)
    ELSE IF b = l THEN Return(r)
    ELSE IF l = r THEN Return(l)
    ELSE Raise("ValueError")

\* the list comprehension of merge_list over the triples the matcher yielded:
\* merge_simple on each, None filtered out, the first exception propagated
RECURSIVE MergeTriples(_, _, _)
MergeTriples(triples, n, acc) ==
    IF n > Len(triples) THEN Return(acc)
    ELSE LET o == merge_simple(triples[n][1], triples[n][2], triples[n][3])
         IN  IF o.err # "" THEN o
             ELSE MergeTriples(triples, n + 1,
                               IF o.val = None THEN acc ELSE Append(acc, o.val[1]))

\* mutant of merge_list: the union of local and remote, base not consulted
merge_list_Union(b, l, r) ==
    LET comprehension(m, o) ==
            IF o.err # "" THEN o
            ELSE IF m.pc # "done" THEN Raise(m.pc)
            ELSE o
        matched(m) == comprehension(m, MergeTriples(m.emitted, 1, <<>>))
    IN  matched(SetMatcher3("value", <<>>, l, r))

merge_list(b, l, r) ==
    LET comprehension(m, o) ==
            IF o.err # "" THEN o
            ELSE IF m.pc # "done" THEN Raise(m.pc)
            ELSE o
        matched(m) == comprehension(m, MergeTriples(m.emitted, 1, <<>>))
    IN  matched(SetMatcher3("value", b, l, r))

---------------------------------------------------------------------------
(* The catalog unit (pypo.pounit) as the mergers use it:                   *)
(*   key        getid(): source and context                                *)
(*   target     the translation, "" when blank; a header's Key: Value text *)
(*   fuzzy, obsolete                                                       *)
(*   locations  getlocations()                                             *)
(*   types      the tokens of typecomments other than fuzzy                *)
(*   dnotes, tnotes  the lines of the developer and translator notes       *)
(*   prev_msgid "" when the unit has none                                  *)

HeaderKey == ""

isheader(u) == u.key = HeaderKey /\ u.target # ""

isblank(u) == u.target = ""

makeobsolete(u) == [ u EXCEPT !.obsolete = TRUE ]

markfuzzy(u, f) == [ u EXCEPT !.fuzzy = f ]

\* deepcopy: a copy equal to its argument, None for None
clone_unit(ou) == ou

empty_unit(template) ==
    [ key |-> template.key, target |-> "", fuzzy |-> FALSE, obsolete |-> FALSE,
      locations |-> <<>>, types |-> <<>>, dnotes |-> <<>>, tnotes |-> <<>>,
      prev_msgid |-> "" ]

\* getnotes(origin).split('\n'): the lines, [''] when there is no note
NoteLines(notes) == IF notes = <<>> THEN <<"">> ELSE notes

\* addnote ignores an empty text
RECURSIVE AddNotes(_, _)
AddNotes(notes, lines) ==
    IF lines = <<>> THEN notes
    ELSE AddNotes(IF Head(lines) = "" THEN notes ELSE Append(notes, Head(lines)),
                  Tail(lines))

\* mutant of _equal_translation: the fuzzy flag of an empty target counts
_equal_translation_Strict(left, right) ==
    /\ left.target = right.target
    /\ left.fuzzy = right.fuzzy

_equal_translation(left, right) ==
    /\ left.target = right.target
    /\ (left.fuzzy = right.fuzzy \/ left.target = "")

---------------------------------------------------------------------------
(* _PoFileDiff._merge_target.  ctx names the two stores for the conflict   *)
(* marker: ctx.lfile, ctx.lproj, ctx.rfile, ctx.rproj                      *)

\* mutant of set_translation_from: the fuzzy flag does not follow the target
set_translation_from_KeepFuzzy(out, unit) ==
    [ out EXCEPT !.target = unit.target,
                 !.prev_msgid = IF unit.prev_msgid # "" THEN unit.prev_msgid ELSE @ ]

set_translation_from(out, unit) ==
    [ out EXCEPT !.target = unit.target,
                 !.prev_msgid = IF unit.prev_msgid # "" THEN unit.prev_msgid ELSE @,
                 !.fuzzy = unit.fuzzy ]

\* mutant of Quality: a fuzzy translation outranks a clean one
Quality_FuzzyFirst(unit) == IF isblank(unit) THEN 0 ELSE IF unit.fuzzy THEN 2 ELSE 1

Quality(unit) == IF isblank(unit) THEN 0 ELSE IF unit.fuzzy THEN 1 ELSE 2

ConflictMarker(l, r, ctx) ==
    "#-#-#-#-#  " \o ctx.lfile \o " (" \o ctx.lproj \o ")  #-#-#-#-#\n"
        \o l.target \o "\n"
        \o "#-#-#-#-#  " \o ctx.rfile \o " (" \o ctx.rproj \o ")  #-#-#-#-#\n"
        \o r.target \o "\n"

\* returns [out, c]
_merge_target(out, b, l, r, ctx) ==
    IF _equal_translation(b, l)
    THEN [ out |-> set_translation_from(out, r), c |-> 0 ]
    ELSE IF _equal_translation(b, r)
    THEN [ out |-> set_translation_from(out, l), c |-> 0 ]
    ELSE IF _equal_translation(l, r)
    THEN [ out |-> set_translation_from(out, l), c |-> 0 ]
    ELSE IF Quality(l) > Quality(r)
    THEN [ out |-> set_translation_from(out, l), c |-> 0 ]
    ELSE IF Quality(r) > Quality(l)
    THEN [ out |-> set_translation_from(out, r), c |-> 0 ]
    ELSE [ out |-> markfuzzy([ out EXCEPT !.target = ConflictMarker(l, r, ctx) ], TRUE),
           c |-> 1 ]

---------------------------------------------------------------------------
(* _PoFileDiff._get_time and _merge_header.  A parsed header is the        *)
(* ordered dictionary of poheader.parseheaderstring: a sequence of         *)
(* <<key, value>> pairs.                                                   *)

\* the header text of a dictionary, as line 478 writes it
RECURSIVE FormatHeader(_)
FormatHeader(d) ==
    IF d = <<>> THEN ""
    ELSE d[1][1] \o ": " \o d[1][2] \o "\n" \o FormatHeader(Tail(d))

TimePlaceholder == "YEAR-MO-DA HO:MI+ZONE"

\* the timestamp strings of the model that _time_pattern matches, with the
\* groups it captures
TimeTable ==
    { [ str |-> "2013-12-11 11:30+0100", year |-> 2013, month |-> 12, day |-> 11,
        hour |-> 11, minute |-> 30, sign |-> "+", hh |-> 1, mm |-> 0 ],
      [ str |-> "2013-12-11 11:40+0100", year |-> 2013, month |-> 12, day |-> 11,
        hour |-> 11, minute |-> 40, sign |-> "+", hh |-> 1, mm |-> 0 ],
      [ str |-> "2013-12-11 11:50+0100", year |-> 2013, month |-> 12, day |-> 11,
        hour |-> 11, minute |-> 50, sign |-> "+", hh |-> 1, mm |-> 0 ],
      [ str |-> "2013-12-11 11:00-0100", year |-> 2013, month |-> 12, day |-> 11,
        hour |-> 11, minute |-> 0, sign |-> "-", hh |-> 1, mm |-> 0 ] }

\* the dictionaries of the headers the model merges
HeaderV1 ==
    << <<"Project-Id-Version", "1">>, <<"PO-Revision-Date", "2013-12-11 11:30+0100">> >>

HeaderV2 ==
    << <<"Project-Id-Version", "2">>, <<"PO-Revision-Date", "2013-12-11 11:40+0100">> >>

HeaderTemplate ==
    << <<"PO-Revision-Date", TimePlaceholder>>, <<"Project-Id-Version", "1">> >>

HeaderUndated == << <<"Project-Id-Version", "3">> >>

\* headers that carry both date fields
HeaderD1 ==
    << <<"Project-Id-Version", "1">>, <<"POT-Creation-Date", "2013-12-11 11:30+0100">>,
       <<"PO-Revision-Date", "2013-12-11 11:40+0100">>, <<"Language", "cs">> >>

HeaderD2 ==
    << <<"Project-Id-Version", "2">>, <<"POT-Creation-Date", "2013-12-11 11:40+0100">>,
       <<"PO-Revision-Date", "2013-12-11 11:30+0100">>, <<"Language", "de">> >>

HeaderD3 ==
    << <<"Project-Id-Version", "3">>, <<"POT-Creation-Date", "2013-12-11 11:40+0100">>,
       <<"PO-Revision-Date", TimePlaceholder>>, <<"Language", "cs_CZ">> >>

\* a revision date written in another time zone
HeaderD4 ==
    << <<"Project-Id-Version", "3">>, <<"POT-Creation-Date", "2013-12-11 11:50+0100">>,
       <<"PO-Revision-Date", "2013-12-11 11:00-0100">> >>

HeaderDicts ==
    { <<>>, HeaderV1, HeaderV2, HeaderTemplate, HeaderUndated,
      HeaderD1, HeaderD2, HeaderD3, HeaderD4 }

parseheaderstring(text) ==
    IF \E d \in HeaderDicts : FormatHeader(d) = text
    THEN CHOOSE d \in HeaderDicts : FormatHeader(d) = text
    ELSE <<>>

DictKeys(d) == [ i \in 1..Len(d) |-> d[i][1] ]

\* dict.get(key, None)
DictGet(d, key) ==
    IF \E i \in 1..Len(d) : d[i][1] = key
    THEN Some(d[CHOOSE i \in 1..Len(d) : d[i][1] = key][2])
    ELSE None

\* dict.get(key, default)
DictGetOr(d, key, default) ==
    IF DictGet(d, key) = None THEN default ELSE DictGet(d, key)[1]

\* seconds west of UTC of the machine that runs the merge (time.timezone)
timezone == 0

\* days from 1970-01-01 to the civil date
DaysFromCivil(year, month, day) ==
    LET y   == IF month <= 2 THEN year - 1 ELSE year
        era == y \div 400
        yoe == y - era * 400
        mp  == IF month > 2 THEN month - 3 ELSE month + 9
        doy == (153 * mp + 2) \div 5 + day - 1
        doe == yoe * 365 + yoe \div 4 - yoe \div 100 + doy
    IN  era * 146097 + doe - 719468

\* time.mktime of the broken-down local time
mktime(g) ==
    DaysFromCivil(g.year, g.month, g.day) * 86400 + g.hour * 3600 + g.minute * 60
        + timezone

\* timestr is dict.get(attribute): None raises TypeError in the pattern match
_get_time(timestr) ==
    IF timestr = None THEN Raise("TypeError")
    ELSE IF \E g \in TimeTable : g.str = timestr[1]
    THEN LET g  == CHOOSE g \in TimeTable : g.str = timestr[1]
             \* int(m.group(6)): the hours of the offset with their sign
             g6 == IF g.sign = "+" THEN g.hh ELSE -g.hh
         IN  Return(mktime(g) + timezone
                    + g6 * 3600 + g6 * (IF g.sign = "+" THEN 60 ELSE -60))
    ELSE Return(0)

_template_headers ==
    { "Project-Id-Version", "Report-Msgid-Bugs-To", "POT-Creation-Date", "Language-Team" }

newer(left, right, attribute) ==
    LET compare(lt, rt) ==
            IF lt.err # "" THEN lt
            ELSE IF rt.err # "" THEN rt
            ELSE Return(lt.val >= rt.val)
    IN  compare(_get_time(DictGet(left, attribute)), _get_time(DictGet(right, attribute)))

ConflictNote(file, other, key) ==
    "(conflict) " \o file \o " (" \o DictGetOr(other, "Project-Id-Version", "???")
        \o "): " \o key \o ": " \o DictGetOr(other, key, "<unset>")

\* the body of the loop over allkeys, lines 451-478, on st = [err, out, c]
MergeHeaderKey(st, key, bd, ld, rd, ctx) ==
    LET b == DictGet(bd, key)
        l == DictGet(ld, key)
        r == DictGet(rd, key)
        put(o, res) == IF res = None THEN o
                       ELSE [ o EXCEPT !.target = @ \o key \o ": " \o res[1] \o "\n" ]
        conflict(use_local) ==
            IF use_local.err # "" THEN [ st EXCEPT !.err = use_local.err ]
            ELSE LET used  == IF use_local.val THEN ld ELSE rd
                     other == IF use_local.val THEN rd ELSE ld
                     file  == IF use_local.val THEN ctx.rfile ELSE ctx.lfile
                     noted == [ st.out EXCEPT
                                  !.tnotes = AddNotes(@, <<ConflictNote(file, other, key)>>) ]
                 IN  [ st EXCEPT !.out = put(noted, DictGet(used, key)),
                                 !.c = 1 ]
    IN  IF b = l THEN [ st EXCEPT !.out = put(@, r) ]
        ELSE IF b = r \/ l = r THEN [ st EXCEPT !.out = put(@, l) ]
        ELSE conflict(newer(ld, rd, IF key \in _template_headers
                                    THEN "POT-Creation-Date"
                                    ELSE "PO-Revision-Date"))

RECURSIVE MergeHeaderKeys(_, _, _, _, _, _)
MergeHeaderKeys(st, keys, bd, ld, rd, ctx) ==
    IF keys = <<>> \/ st.err # "" THEN st
    ELSE MergeHeaderKeys(MergeHeaderKey(st, Head(keys), bd, ld, rd, ctx),
                         Tail(keys), bd, ld, rd, ctx)

\* returns [err, out, c]
_merge_header(out, b, l, r, ctx) ==
    LET flagged(st) ==
            IF st.err # "" THEN st
            ELSE [ st EXCEPT !.out = markfuzzy(@, merge_simple(b.fuzzy, l.fuzzy, r.fuzzy).val) ]
        written(allkeys, bd, ld, rd) ==
            flagged(IF allkeys.err # ""
                    THEN [ err |-> allkeys.err, out |-> out, c |-> 0 ]
                    ELSE MergeHeaderKeys([ err |-> "", out |-> [ out EXCEPT !.target = "" ],
                                           c |-> 0 ],
                                         allkeys.val, bd, ld, rd, ctx))
        parsed(bd, ld, rd) ==
            written(merge_list(DictKeys(bd), DictKeys(ld), DictKeys(rd)), bd, ld, rd)
    IN  parsed(parseheaderstring(b.target), parseheaderstring(l.target),
               parseheaderstring(r.target))

---------------------------------------------------------------------------
(* _PoFileDiff._merge_unit, DiffUtils.merge_unit and DiffUtils.merge.      *)
(* A unit merge returns [err, unit, conflicts], unit being None or <<u>>.  *)

UnitResult(ou, c) == [ err |-> "", unit |-> ou, conflicts |-> c ]

UnitError(e) == [ err |-> e, unit |-> None, conflicts |-> 0 ]

\* mutant of _merge_unit: the obsolete flag is remote's
_merge_unit_RemoteObsolete(b, l, r, ctx) ==
    LET header(h) ==
            IF h.err # "" THEN UnitError(h.err) ELSE UnitResult(Some(h.out), h.c)
        target(t) == UnitResult(Some(t.out), t.c)
        translated(out) ==
            IF isheader(l)
            THEN header(_merge_header(out, b, l, r, ctx))
            ELSE target(_merge_target(out, b, l, r, ctx))
        flagged(filled, obs) ==
            translated(IF obs THEN makeobsolete(filled) ELSE filled)
        filled(locs, dn, tn, types, obs) ==
            IF locs.err # "" THEN UnitError(locs.err)
            ELSE IF dn.err # "" THEN UnitError(dn.err)
            ELSE IF tn.err # "" THEN UnitError(tn.err)
            ELSE IF types.err # "" THEN UnitError(types.err)
            ELSE IF obs.err # "" THEN UnitError(obs.err)
            ELSE flagged([ empty_unit(l) EXCEPT !.locations = locs.val,
                                                !.dnotes = AddNotes(<<>>, dn.val),
                                                !.tnotes = AddNotes(<<>>, tn.val),
                                                !.types = types.val ],
                         obs.val)
    IN  filled(merge_list(b.locations, l.locations, r.locations),
               merge_list(NoteLines(b.dnotes), NoteLines(l.dnotes), NoteLines(r.dnotes)),
               merge_list(NoteLines(b.tnotes), NoteLines(l.tnotes), NoteLines(r.tnotes)),
               merge_list(b.types, l.types, r.types),
               Return(r.obsolete))

_merge_unit(b, l, r, ctx) ==
    LET header(h) ==
            IF h.err # "" THEN UnitError(h.err) ELSE UnitResult(Some(h.out), h.c)
        target(t) == UnitResult(Some(t.out), t.c)
        translated(out) ==
            IF isheader(l)
            THEN header(_merge_header(out, b, l, r, ctx))
            ELSE target(_merge_target(out, b, l, r, ctx))
        flagged(filled, obs) ==
            translated(IF obs THEN makeobsolete(filled) ELSE filled)
        filled(locs, dn, tn, types, obs) ==
            IF locs.err # "" THEN UnitError(locs.err)
            ELSE IF dn.err # "" THEN UnitError(dn.err)
            ELSE IF tn.err # "" THEN UnitError(tn.err)
            ELSE IF types.err # "" THEN UnitError(types.err)
            ELSE IF obs.err # "" THEN UnitError(obs.err)
            ELSE flagged([ empty_unit(l) EXCEPT !.locations = locs.val,
                                                !.dnotes = AddNotes(<<>>, dn.val),
                                                !.tnotes = AddNotes(<<>>, tn.val),
                                                !.types = types.val ],
                         obs.val)
    IN  filled(merge_list(b.locations, l.locations, r.locations),
               merge_list(NoteLines(b.dnotes), NoteLines(l.dnotes), NoteLines(r.dnotes)),
               merge_list(NoteLines(b.tnotes), NoteLines(l.tnotes), NoteLines(r.tnotes)),
               merge_list(b.types, l.types, r.types),
               merge_simple(b.obsolete, l.obsolete, r.obsolete))

\* mutant of merge_unit: a unit deleted on one side is kept live
merge_unit_NoObsolete(b, l, r, ctx) ==
    IF b = None /\ l = None /\ r = None THEN UnitError("AssertionError")
    ELSE IF l # None /\ r # None
    THEN _merge_unit(IF b = None THEN empty_unit(l[1]) ELSE b[1], l[1], r[1], ctx)
    ELSE IF r = None THEN UnitResult(clone_unit(l), 0)
    ELSE UnitResult(clone_unit(r), 0)

\* b, l, r are None or <<unit>>
merge_unit(b, l, r, ctx) ==
    IF b = None /\ l = None /\ r = None THEN UnitError("AssertionError")
    ELSE IF b = None
    THEN IF r = None THEN UnitResult(clone_unit(l), 0)
         ELSE IF l = None THEN UnitResult(clone_unit(r), 0)
         ELSE _merge_unit(empty_unit(l[1]), l[1], r[1], ctx)
    ELSE IF r = None
    THEN LET u == clone_unit(l)
         IN  IF ~b[1].obsolete
             THEN IF u = None THEN UnitError("AttributeError")
                  ELSE UnitResult(Some(makeobsolete(u[1])), 0)
             ELSE UnitResult(u, 0)
    ELSE IF l = None
    THEN LET u == clone_unit(r)
         IN  IF ~b[1].obsolete
             THEN UnitResult(Some(makeobsolete(u[1])), 0)
             ELSE UnitResult(u, 0)
    ELSE _merge_unit(b[1], l[1], r[1], ctx)

\* store.parseheader().get("Project-Id-Version", u"???")
ProjectOf(store) ==
    IF Len(store) > 0 /\ isheader(store[1])
    THEN DictGetOr(parseheaderstring(store[1].target), "Project-Id-Version", "???")
    ELSE "???"

\* getattr(store, 'filename', default), lines 471, 519 and 521
FileLabel(file, default) == IF file = None THEN default ELSE file[1]

\* the stores of local and remote as the conflict marker and the conflict notes
\* name them; files holds the filename attribute of the two stores
StoreContext(l, r, files) ==
    [ lfile |-> FileLabel(files.local, "local"), lproj |-> ProjectOf(l),
      rfile |-> FileLabel(files.remote, "remote"), rproj |-> ProjectOf(r) ]

\* the loop of merge over the yielded triples, lines 264-274, on
\* st = [err, headers, normal, obsolete, conflicts]
RECURSIVE MergeLoop(_, _, _, _)
MergeLoop(st, triples, n, ctx) ==
    IF n > Len(triples) THEN st
    ELSE LET placed(m) ==
                 IF m.unit = None THEN st
                 ELSE IF isheader(m.unit[1])
                 THEN [ st EXCEPT !.headers = Append(@, m.unit[1]) ]
                 ELSE IF m.unit[1].obsolete
                 THEN [ st EXCEPT !.obsolete = Append(@, m.unit[1]) ]
                 ELSE [ st EXCEPT !.normal = Append(@, m.unit[1]) ]
             body(m) ==
                 IF m.err # "" THEN [ st EXCEPT !.err = m.err ]
                 ELSE MergeLoop([ placed(m) EXCEPT !.conflicts = @ + m.conflicts ],
                                triples, n + 1, ctx)
         IN  body(merge_unit(triples[n][1], triples[n][2], triples[n][3], ctx))

\* mutant of Chain: the obsolete units are added before the live ones
ChainObsoleteFirst(headers, normal, obsolete) == headers \o obsolete \o normal

\* chain(headers, normal, obsolete), line 277
Chain(headers, normal, obsolete) == headers \o normal \o obsolete

\* returns [err, out, conflicts], out being the units of the output catalog
merge(b, l, r, files) ==
    LET chained(m, st) ==
            IF st.err # "" THEN [ err |-> st.err, out |-> <<>>, conflicts |-> 0 ]
            ELSE IF m.pc # "done" THEN [ err |-> m.pc, out |-> <<>>, conflicts |-> 0 ]
            ELSE [ err |-> "", out |-> Chain(st.headers, st.normal, st.obsolete),
                   conflicts |-> st.conflicts ]
        matched(m) ==
            chained(m, MergeLoop([ err |-> "", headers |-> <<>>, normal |-> <<>>,
                                   obsolete |-> <<>>, conflicts |-> 0 ],
                                 m.emitted, 1, StoreContext(l, r, files)))
    IN  matched(SetMatcher3("unit", b, l, r))

---------------------------------------------------------------------------
(* Input domains of the mergers *)

\* longest catalog handed to merge
MaxUnits == 2

PoUnit(key, target, fuzzy, obsolete, locations) ==
    [ key |-> key, target |-> target, fuzzy |-> fuzzy, obsolete |-> obsolete,
      locations |-> locations, types |-> <<>>, dnotes |-> <<>>, tnotes |-> <<>>,
      prev_msgid |-> "" ]

HeaderTexts == { FormatHeader(d) : d \in HeaderDicts }

\* the versions of one unit that merge_unit is called on
UnitVersions(key) ==
    IF key = HeaderKey
    THEN { PoUnit(key, t, f, FALSE, <<>>) : t \in HeaderTexts, f \in BOOLEAN }
    ELSE { PoUnit(key, t[1], t[2], t[3], t[4]) :
             t \in {"", "A", "B"} \X BOOLEAN \X BOOLEAN \X {<<>>, <<"x.c:1">>} }

\* the units of the catalogs of the general three-way merge
SmallUnits ==
    { PoUnit(HeaderKey, FormatHeader(HeaderV1), FALSE, FALSE, <<>>) }
      \cup { PoUnit(k, "A", FALSE, FALSE, <<>>) : k \in {"foo", "bar"} }
      \cup { PoUnit(k, "B", FALSE, TRUE, <<>>) : k \in {"foo", "bar"} }

\* the units of the catalogs of merge(b, x, x)
RichUnits ==
    { PoUnit(HeaderKey, FormatHeader(d), FALSE, FALSE, <<>>) : d \in {HeaderV1, HeaderV2} }
      \cup { PoUnit(k, t[1], t[2], t[3], <<"x.c:1">>) :
               k \in {"foo", "bar"},
               t \in { <<"A", FALSE, FALSE>>, <<"B", TRUE, FALSE>>,
                       <<"", FALSE, FALSE>>, <<"A", FALSE, TRUE>> } }

---------------------------------------------------------------------------
(* Specifications of the mergers: one call, one action *)

MergerInit ==
    /\ old = <<>>
    /\ new = <<>>
    /\ item_done = {}
    /\ bw = 1
    /\ lw = 1
    /\ rw = 1
    /\ emitted = <<>>
    /\ pc = "call"
    /\ result = None

MergerFrame == UNCHANGED <<base, local, remote, old, new, filename, item_done, bw, lw, rw, emitted>>

\* Python scalars handed to merge_simple: None, the booleans, two strings
PyTrue == Some("True")
PyFalse == Some("False")
Scalars == { None, PyTrue, PyFalse, Some("a"), Some("b") }

InitSimple ==
    /\ base \in Scalars
    /\ local \in Scalars
    /\ remote \in Scalars
    /\ filename = NoFiles
    /\ MergerInit

MergeSimple ==
    /\ pc = "call"
    /\ result' = merge_simple(base, local, remote)
    /\ pc' = "done"
    /\ MergerFrame

SpecSimple == InitSimple /\ [][MergeSimple]_vars

InitUnit ==
    /\ \E key \in {"foo", HeaderKey} :
          LET opt == {None} \cup { Some(u) : u \in UnitVersions(key) }
          IN  base \in opt /\ local \in opt /\ remote \in opt
    /\ filename \in StoreFiles
    /\ MergerInit

MergeUnit ==
    /\ pc = "call"
    /\ result' = merge_unit(base, local, remote, StoreContext(<<>>, <<>>, filename))
    /\ pc' = "done"
    /\ MergerFrame

SpecUnit == InitUnit /\ [][MergeUnit]_vars

Merge ==
    /\ pc = "call"
    /\ result' = merge(base, local, remote, filename)
    /\ pc' = "done"
    /\ MergerFrame

InitMerge ==
    /\ base \in KeyUniqueSeqs(SmallUnits, MaxUnits)
    /\ local \in KeyUniqueSeqs(SmallUnits, MaxUnits)
    /\ remote \in KeyUniqueSeqs(SmallUnits, MaxUnits)
    /\ filename \in StoreFiles
    /\ MergerInit

SpecMerge == InitMerge /\ [][Merge]_vars

\* merge(b, x, x)
InitConverge ==
    /\ base \in KeyUniqueSeqs(RichUnits, MaxUnits)
    /\ local \in KeyUniqueSeqs(RichUnits, MaxUnits)
    /\ remote = local
    /\ filename \in StoreFiles
    /\ MergerInit

SpecConverge == InitConverge /\ [][Merge]_vars

---------------------------------------------------------------------------
(* Properties of DiffUtils.merge (SpecMerge, SpecConverge) *)

\* how often key k occurs in the units of cat
Occurrences(cat, k) == Cardinality({ i \in 1..Len(cat) : cat[i].key = k })

\* the band merge files a unit in, lines 268-273
Band(u) == IF isheader(u) THEN 0 ELSE IF u.obsolete THEN 2 ELSE 1

BandOrdered(cat) == \A i, j \in 1..Len(cat) : i < j => Band(cat[i]) <= Band(cat[j])

\* the position at which the matcher emits key k for the three catalogs
MatcherPos(k) ==
    LET e == SetMatcher3("unit", base, local, remote).emitted
    IN  CHOOSE n \in 1..Len(e) : TupleKey(e[n]) = k

\* the content of a unit that the identity claims compare
SameUnit(u, v) ==
    /\ u.key = v.key
    /\ u.target = v.target
    /\ u.fuzzy = v.fuzzy
    /\ u.obsolete = v.obsolete
    /\ u.locations = v.locations
    /\ u.types = v.types

SameCatalog(c, d) == Len(c) = Len(d) /\ \A i \in 1..Len(c) : SameUnit(c[i], d[i])

\* C5: merge returns (no exception), every key of the three catalogs is in at
\* most one output unit, and a key is in none only when local and remote both
\* lack it.
C5_MergeCoverage ==
    pc = "done" =>
        /\ result.err = ""
        /\ \A i \in 1..Len(result.out) : result.out[i].key \in AllKeys3
        /\ \A k \in AllKeys3 :
              /\ Occurrences(result.out, k) <= 1
              /\ Occurrences(result.out, k) = 0 => (~HasKey(local, k) /\ ~HasKey(remote, k))

\* C6: in a returned catalog the bands are in the order header, live,
\* obsolete, and two units of one band are in the order the matcher emitted
\* their keys.
C6_Bands ==
    (pc = "done" /\ result.err = "") =>
        \A i, j \in 1..Len(result.out) :
            i < j => /\ Band(result.out[i]) <= Band(result.out[j])
                     /\ Band(result.out[i]) = Band(result.out[j])
                          => MatcherPos(result.out[i].key) < MatcherPos(result.out[j].key)

\* a returned catalog with a header, a live and an obsolete unit, the obsolete
\* one emitted by the matcher before the live one
C6_Witness ==
    /\ pc = "done" /\ result.err = ""
    /\ Len(result.out) = 3
    /\ Band(result.out[1]) = 0
    /\ Band(result.out[2]) = 1
    /\ Band(result.out[3]) = 2
    /\ MatcherPos(result.out[3].key) < MatcherPos(result.out[2].key)

\* C7 (as stated): merge(b, b, b) returns b, units in the same order, and 0
\* conflicts, for any catalog b.
C7_IdentityAll ==
    (pc = "done" /\ base = local /\ local = remote) =>
        /\ result.err = ""
        /\ result.conflicts = 0
        /\ SameCatalog(result.out, base)

\* C7 (amended): merge(b, b, b) returns b, units in the same order, and 0
\* conflicts, for any catalog b whose units are in band order (headers, then
\* live units, then obsolete units).
C7_Identity ==
    (pc = "done" /\ base = local /\ local = remote /\ BandOrdered(base)) =>
        /\ result.err = ""
        /\ result.conflicts = 0
        /\ SameCatalog(result.out, base)

\* merge(b, b, b) has returned for a catalog of a header and a fuzzy unit
C7_Witness ==
    /\ pc = "done" /\ base = local /\ local = remote
    /\ Len(base) = 2
    /\ isheader(base[1])
    /\ base[2].fuzzy /\ base[2].target # ""
    /\ result.err = ""
    /\ SameCatalog(result.out, base)

\* C8: merge(b, x, x) returns x and 0 conflicts, for any catalog b and any
\* catalog x (here: x in band order, which the forced band order leaves as
\* it is), keys that b has and x lacks included.
C8_Convergence ==
    (pc = "done" /\ local = remote /\ BandOrdered(local)) =>
        /\ result.err = ""
        /\ result.conflicts = 0
        /\ SameCatalog(result.out, local)

---------------------------------------------------------------------------
(* Properties of DiffUtils.merge_unit (SpecUnit) and merge_simple           *)
(* (SpecSimple)                                                            *)

\* what C9 says of the copy of the present unit p
OneSided(p) ==
    /\ result.err = ""
    /\ result.conflicts = 0
    /\ result.unit =
          Some([ p EXCEPT !.obsolete =
                    IF base = None THEN p.obsolete
                    ELSE (p.obsolete \/ ~base[1].obsolete) ])

\* C9: with exactly one of local and remote present, merge_unit returns a
\* copy of the present unit and 0 conflicts; the copy's obsolete flag is
\* unchanged when base is absent, and is set iff the present unit was
\* obsolete or base is not obsolete when base is present.
C9_OneSided ==
    pc = "done" =>
        /\ (local # None /\ remote = None) => OneSided(local[1])
        /\ (local = None /\ remote # None) => OneSided(remote[1])

\* a live translated unit that remote deleted has been returned obsolete
C9_Witness ==
    /\ pc = "done"
    /\ base # None /\ local # None /\ remote = None
    /\ ~base[1].obsolete /\ ~local[1].obsolete
    /\ local[1].target # "" /\ local[1].target # base[1].target
    /\ result.unit # None
    /\ result.unit[1].obsolete
    /\ result.unit[1].target = local[1].target

\* C10: merge_simple returns local when base = remote, else remote when
\* base = local, else local when local = remote, else raises ValueError; on
\* booleans it never raises.
C10_MergeSimple ==
    pc = "done" =>
        /\ base = remote => result = Return(local)
        /\ (base # remote /\ base = local) => result = Return(remote)
        /\ (base # remote /\ base # local /\ local = remote) => result = Return(local)
        /\ (base # remote /\ base # local /\ local # remote) => result.err = "ValueError"
        /\ {base, local, remote} \subseteq {PyTrue, PyFalse} => result.err = ""

\* merge_simple has raised on three pairwise different values
C10_Witness ==
    /\ pc = "done"
    /\ base # remote /\ base # local /\ local # remote
    /\ result.err = "ValueError"

---------------------------------------------------------------------------
(* DiffUtils.merge_list on duplicate-free lists (SpecList) *)

\* longest list handed to merge_list
MaxList == 3

ListValues == {"here:4", "there:5", "here:8"}

DupFreeSeqs(S, n) ==
    UNION { { s \in [1..m -> S] : \A i, j \in 1..m : i # j => s[i] # s[j] } : m \in 0..n }

InitList ==
    /\ base \in DupFreeSeqs(ListValues, MaxList)
    /\ local \in DupFreeSeqs(ListValues, MaxList)
    /\ remote \in DupFreeSeqs(ListValues, MaxList)
    /\ filename = NoFiles
    /\ MergerInit

MergeList ==
    /\ pc = "call"
    /\ result' = merge_list(base, local, remote)
    /\ pc' = "done"
    /\ MergerFrame

SpecList == InitList /\ [][MergeList]_vars

Elems(seq) == { seq[i] : i \in 1..Len(seq) }

\* the value of a triple the matcher emitted for the lists
TripleValue(t) == t[CHOOSE n \in 1..Len(t) : t[n] # None][1]

\* the position at which the matcher emits value v for the three lists
ValuePos(v) ==
    LET e == SetMatcher3("value", base, local, remote).emitted
    IN  CHOOSE n \in 1..Len(e) : TripleValue(e[n]) = v

\* C11: merge_list on duplicate-free lists raises nothing and returns a
\* duplicate-free list that holds v iff v is in local and remote, or v is not in
\* base and is in local or remote, in the order in which the matcher emits
\* the values.
C11_MergeList ==
    pc = "done" =>
        /\ result.err = ""
        /\ \A i, j \in 1..Len(result.val) : i # j => result.val[i] # result.val[j]
        /\ \A v \in ListValues :
              v \in Elems(result.val) <=>
                  \/ v \in Elems(local) /\ v \in Elems(remote)
                  \/ v \notin Elems(base) /\ (v \in Elems(local) \/ v \in Elems(remote))
        /\ \A i, j \in 1..Len(result.val) :
              i < j => ValuePos(result.val[i]) < ValuePos(result.val[j])

\* remote dropped a value of base that local kept and added one of its own,
\* local added another: the dropped one is gone and both added ones are kept
C11_Witness ==
    /\ pc = "done"
    /\ \E v \in Elems(base) :
          v \in Elems(local) /\ v \notin Elems(remote) /\ v \notin Elems(result.val)
    /\ \E v \in Elems(remote) :
          v \notin Elems(base) /\ v \notin Elems(local) /\ v \in Elems(result.val)
    /\ \E v \in Elems(local) :
          v \notin Elems(base) /\ v \notin Elems(remote) /\ v \in Elems(result.val)

---------------------------------------------------------------------------
(* Properties of _PoFileDiff._merge_target (SpecUnit) *)

\* merge_unit was called on three present units and took the target merge
TargetMerged ==
    /\ pc = "done"
    /\ base # None /\ local # None /\ remote # None
    /\ ~isheader(local[1])

\* equivalent translations: the same target and (the same fuzzy flag or an
\* empty target)
Equivalent(a, b) == a.target = b.target /\ (a.fuzzy = b.fuzzy \/ a.target = "")

\* the output has the target and the fuzzy flag of unit u, and no conflict
Adopted(u) ==
    /\ result.err = ""
    /\ result.unit # None
    /\ result.unit[1].target = u.target
    /\ result.unit[1].fuzzy = u.fuzzy
    /\ result.conflicts = 0

\* C12: in the target merge of a non-header unit present on all three sides,
\* the output takes remote's target and fuzzy flag when base and local are
\* equivalent, else local's when base and remote are equivalent, else local's
\* when local and remote are equivalent, each with 0 conflicts.
C12_TargetMerge ==
    TargetMerged =>
        /\ Equivalent(base[1], local[1]) => Adopted(remote[1])
        /\ (~Equivalent(base[1], local[1]) /\ Equivalent(base[1], remote[1]))
              => Adopted(local[1])
        /\ (~Equivalent(base[1], local[1]) /\ ~Equivalent(base[1], remote[1])
              /\ Equivalent(local[1], remote[1])) => Adopted(local[1])

\* local changed a clean translation to a fuzzy one, remote changed nothing:
\* the output is local's fuzzy translation
C12_Witness ==
    /\ TargetMerged
    /\ base[1].target # "" /\ ~base[1].fuzzy
    /\ remote[1].target = base[1].target /\ ~remote[1].fuzzy
    /\ local[1].target # base[1].target /\ local[1].target # "" /\ local[1].fuzzy
    /\ result.unit # None
    /\ result.unit[1].target = local[1].target
    /\ result.unit[1].fuzzy

PairwiseDifferent ==
    /\ ~Equivalent(base[1], local[1])
    /\ ~Equivalent(base[1], remote[1])
    /\ ~Equivalent(local[1], remote[1])

\* blank 0, fuzzy non-blank 1, clean translation 2
Score(u) == IF u.target = "" THEN 0 ELSE IF u.fuzzy THEN 1 ELSE 2

\* the name of a side in a conflict marker or note: its store's file name,
\* "local" or "remote" when the store has none
LocalName == IF filename.local = None THEN "local" ELSE filename.local[1]

RemoteName == IF filename.remote = None THEN "remote" ELSE filename.remote[1]

\* the conflict marker of two stores without header
MarkerOf(l, r) ==
    "#-#-#-#-#  " \o LocalName \o " (???)  #-#-#-#-#\n" \o l \o "\n"
        \o "#-#-#-#-#  " \o RemoteName \o " (???)  #-#-#-#-#\n" \o r \o "\n"

\* C13: with pairwise non-equivalent translations the higher-scored side is
\* adopted with 0 conflicts; on equal scores the target is the conflict marker
\* of local's and remote's targets, the output is fuzzy and 1 conflict is
\* returned; no other path of the target merge returns a conflict.
C13_Arbitration ==
    TargetMerged =>
        /\ result.err = ""
        /\ (PairwiseDifferent /\ Score(local[1]) > Score(remote[1])) => Adopted(local[1])
        /\ (PairwiseDifferent /\ Score(remote[1]) > Score(local[1])) => Adopted(remote[1])
        /\ (PairwiseDifferent /\ Score(local[1]) = Score(remote[1])) =>
              /\ result.unit # None
              /\ result.unit[1].target = MarkerOf(local[1].target, remote[1].target)
              /\ result.unit[1].fuzzy
              /\ result.conflicts = 1
        /\ result.conflicts # 0 =>
              PairwiseDifferent /\ Score(local[1]) = Score(remote[1])

\* two different clean translations of an untranslated base: a conflict marker,
\* which names the local store by its file name and the remote store, which
\* has none, "remote"
C13_Witness ==
    /\ TargetMerged
    /\ base[1].target = ""
    /\ local[1].target = "A" /\ ~local[1].fuzzy
    /\ remote[1].target = "B" /\ ~remote[1].fuzzy
    /\ result.conflicts = 1
    /\ result.unit # None
    /\ result.unit[1].fuzzy
    /\ filename.local = Some("l.po")
    /\ filename.remote = None
    /\ result.unit[1].target = "#-#-#-#-#  l.po (???)  #-#-#-#-#\nA\n"
                                   \o "#-#-#-#-#  remote (???)  #-#-#-#-#\nB\n"

---------------------------------------------------------------------------
(* Properties of _PoFileDiff._merge_header (SpecUnit) *)

\* merge_unit was called on three present units and took the header merge
HeaderMerged ==
    /\ pc = "done"
    /\ base # None /\ local # None /\ remote # None
    /\ isheader(local[1])

BaseDict == parseheaderstring(base[1].target)

LocalDict == parseheaderstring(local[1].target)

RemoteDict == parseheaderstring(remote[1].target)

\* the keys of the three headers in the order the output lists them
HeaderKeys == merge_list(DictKeys(BaseDict), DictKeys(LocalDict), DictKeys(RemoteDict)).val

\* the field whose timestamp arbitrates a conflict on key k
ArbitrationField(k) ==
    IF k \in {"Project-Id-Version", "Report-Msgid-Bugs-To", "POT-Creation-Date",
              "Language-Team"}
    THEN "POT-Creation-Date"
    ELSE "PO-Revision-Date"

\* the instant in UTC that a timestamp string denotes, in seconds since the
\* epoch; 0 for an absent field and for a string that is no timestamp
Instant(v) ==
    IF v = None THEN 0
    ELSE IF \E g \in TimeTable : g.str = v[1]
    THEN LET g == CHOOSE g \in TimeTable : g.str = v[1]
             offset == (IF g.sign = "+" THEN 1 ELSE -1) * (g.hh * 3600 + g.mm * 60)
         IN  DaysFromCivil(g.year, g.month, g.day) * 86400 + g.hour * 3600
                 + g.minute * 60 - offset
    ELSE 0

KeyConflict(k) ==
    /\ DictGet(BaseDict, k) # DictGet(LocalDict, k)
    /\ DictGet(BaseDict, k) # DictGet(RemoteDict, k)
    /\ DictGet(LocalDict, k) # DictGet(RemoteDict, k)

LocalNewer(k) ==
    Instant(DictGet(LocalDict, ArbitrationField(k)))
        >= Instant(DictGet(RemoteDict, ArbitrationField(k)))

\* the value the output has for key k, None when it has none
KeyValue(k) ==
    IF DictGet(BaseDict, k) = DictGet(LocalDict, k) THEN DictGet(RemoteDict, k)
    ELSE IF ~KeyConflict(k) THEN DictGet(LocalDict, k)
    ELSE IF LocalNewer(k) THEN DictGet(LocalDict, k)
    ELSE DictGet(RemoteDict, k)

\* the note of a conflict on key k: it names the losing side and its value
KeyNote(k) ==
    IF LocalNewer(k)
    THEN "(conflict) " \o RemoteName \o " (" \o DictGetOr(RemoteDict, "Project-Id-Version", "???")
             \o "): " \o k \o ": " \o DictGetOr(RemoteDict, k, "<unset>")
    ELSE "(conflict) " \o LocalName \o " (" \o DictGetOr(LocalDict, "Project-Id-Version", "???")
             \o "): " \o k \o ": " \o DictGetOr(LocalDict, k, "<unset>")

RECURSIVE HeaderText(_)
HeaderText(keys) ==
    IF keys = <<>> THEN ""
    ELSE (IF KeyValue(Head(keys)) = None THEN ""
          ELSE Head(keys) \o ": " \o KeyValue(Head(keys))[1] \o "\n")
             \o HeaderText(Tail(keys))

RECURSIVE HeaderNotes(_)
HeaderNotes(keys) ==
    IF keys = <<>> THEN <<>>
    ELSE (IF KeyConflict(Head(keys)) THEN <<KeyNote(Head(keys))>> ELSE <<>>)
             \o HeaderNotes(Tail(keys))

\* C14: the header merge gives every key the value of remote when base = local,
\* else of local when base = remote or local = remote, else of local iff the
\* instant of local's arbitration field is at or after that of remote's; every
\* conflicting key adds one note naming the losing side and its value, and the
\* header counts 1 conflict when a key conflicts and 0 otherwise.
C14_HeaderMerge ==
    HeaderMerged =>
        /\ result.err = ""
        /\ result.unit # None
        /\ result.unit[1].target = HeaderText(HeaderKeys)
        /\ result.unit[1].tnotes = HeaderNotes(HeaderKeys)
        /\ result.conflicts =
              IF \E n \in 1..Len(HeaderKeys) : KeyConflict(HeaderKeys[n]) THEN 1 ELSE 0

---------------------------------------------------------------------------
(* The obsolete flag in _PoFileDiff._merge_unit (SpecUnit) *)

\* merge_unit was called with the unit present in local and in remote
BothPresent == pc = "done" /\ local # None /\ remote # None

\* the flag of base, of the synthetic empty base when base lacks the unit
BaseObsolete == IF base = None THEN FALSE ELSE base[1].obsolete

\* the three-way simple merge of the three obsolete flags
MergedObsolete ==
    IF BaseObsolete = remote[1].obsolete THEN local[1].obsolete
    ELSE IF BaseObsolete = local[1].obsolete THEN remote[1].obsolete
    ELSE local[1].obsolete

\* side x made the unit obsolete and left the translation, side y changed the
\* translation and left the flag
ObsoletedAndChanged(x, y) ==
    /\ base # None /\ ~base[1].obsolete
    /\ x.obsolete /\ Equivalent(base[1], x)
    /\ ~y.obsolete /\ ~Equivalent(base[1], y)
    /\ ~isheader(local[1])

\* C15: with the unit in local and remote, the output is obsolete iff the
\* simple merge of the three obsolete flags is true, whichever translation is
\* adopted: a unit resurrected on one side and still obsolete on the other
\* comes out live, and a unit made obsolete on one side whose translation the
\* other side changed comes out obsolete with the changed target and fuzzy
\* flag and 0 conflicts.
C15_ObsoleteFlag ==
    BothPresent =>
        /\ ~isheader(local[1]) => result.err = ""
        /\ result.err = "" =>
              /\ result.unit # None
              /\ result.unit[1].obsolete = MergedObsolete
        /\ (result.err = "" /\ base # None /\ base[1].obsolete
               /\ local[1].obsolete # remote[1].obsolete) => ~result.unit[1].obsolete
        /\ ObsoletedAndChanged(local[1], remote[1]) =>
              result.unit[1].obsolete /\ Adopted(remote[1])
        /\ ObsoletedAndChanged(remote[1], local[1]) =>
              result.unit[1].obsolete /\ Adopted(local[1])

\* local made the unit obsolete, remote changed its translation to a fuzzy
\* one: the output is obsolete and fuzzy with remote's target
C15_Witness ==
    /\ BothPresent
    /\ ObsoletedAndChanged(local[1], remote[1])
    /\ remote[1].fuzzy /\ remote[1].target # ""
    /\ result.unit # None
    /\ result.unit[1].obsolete
    /\ result.unit[1].fuzzy
    /\ result.unit[1].target = remote[1].target
    /\ result.conflicts = 0

---------------------------------------------------------------------------
(* Termination of SetMatcher3.match.  The program is single-threaded and   *)
(* sequential: match() runs on from where it stands to its next yield or   *)
(* to its end, and its consumer, the for loop of line 264 or of line 338,  *)
(* takes its next step once it holds a triple: it asks for the next triple *)
(* or it leaves the loop (merge_unit raising at line 265).  Nothing obliges *)
(* the consumer to ask rather than to leave.                               *)

SpecMatch3Fair == SpecMatch3 /\ WF_vars(Match3Generator) /\ WF_vars(Match3Consumer)

\* an iteration of the main loop that does not end the loop stops at a yield
\* with one more triple, of a slot that was not done, and the slot is done once
\* the consumer has asked for the next triple
LoopEmits ==
    /\ (pc = "loop" /\ pc' # "drain") =>
          /\ pc' \in {"yield@205", "yield@212"}
          /\ Len(emitted') = Len(emitted) + 1
          /\ TupleKey(emitted'[Len(emitted')]) \notin item_done
    /\ (pc \in {"yield@205", "yield@212", "yield@225"} /\ pc' # "stopped") =>
          /\ emitted' = emitted
          /\ TupleKey(emitted[Len(emitted)]) \notin item_done
          /\ item_done' = item_done \cup {TupleKey(emitted[Len(emitted)])}

\* C16: under the key-identity precondition match() terminates whenever its
\* consumer keeps asking for triples: every iteration of the main loop emits
\* one triple of a slot that is not done, no assertion fails, match() ends
\* unless its consumer has stopped, and when it has ended the three walkers
\* are invalid and every slot is done.
C16_Termination ==
    /\ [](pc # "AssertionError")
    /\ [][LoopEmits]_vars
    /\ [](pc = "done" =>
            /\ ~WalkerValid(base, bw)
            /\ ~WalkerValid(local, lw)
            /\ ~WalkerValid(remote, rw)
            /\ AllKeys3 \subseteq item_done)
    /\ (<>(pc = "stopped") \/ <>(pc = "done"))

\* the main loop runs on with the local walker exhausted and the remote walker
\* on a unit that is still to be emitted
C16_Witness ==
    /\ pc = "loop"
    /\ Len(emitted) > 0
    /\ Len(local) > 0
    /\ ~WalkerValid(local, lw)
    /\ WalkerValid(remote, rw)
    /\ remote[rw].key \notin item_done

---------------------------------------------------------------------------
(* Timestamp arbitration (SpecUnit) *)

\* the field holds a timestamp that the pattern matches
RealStamp(v) == v # None /\ \E g \in TimeTable : g.str = v[1]

\* the note that names side `file` with header d as the loser on key k
LoserNote(file, d, k) ==
    "(conflict) " \o file \o " (" \o DictGetOr(d, "Project-Id-Version", "???")
        \o "): " \o k \o ": " \o DictGetOr(d, k, "<unset>")

Noted(note) == \E n \in 1..Len(result.unit[1].tnotes) : result.unit[1].tnotes[n] = note

\* C17: the arbitration of a header conflict never aborts, and on a conflicting
\* key a side whose arbitration field is a real timestamp wins over a side
\* whose field is a placeholder or absent.
C17_NeverAborts ==
    HeaderMerged =>
        /\ result.err = ""
        /\ \A n \in 1..Len(HeaderKeys) :
              LET k  == HeaderKeys[n]
                  lt == DictGet(LocalDict, ArbitrationField(k))
                  rt == DictGet(RemoteDict, ArbitrationField(k))
              IN  KeyConflict(k) =>
                      /\ (RealStamp(lt) /\ ~RealStamp(rt)) =>
                             Noted(LoserNote(RemoteName, RemoteDict, k))
                      /\ (RealStamp(rt) /\ ~RealStamp(lt)) =>
                             Noted(LoserNote(LocalName, LocalDict, k))

---------------------------------------------------------------------------
(* merge_unit on objects (SpecPlural).  To follow what a call writes to,   *)
(* the units are objects of a heap: heap is the sequence of the unit       *)
(* objects made so far and a reference is an index into it.  A unit holds  *)
(* the forms of its translation in the field strings, one form unless it   *)
(* is a plural unit; its target is the first of them.                      *)

\* most plural forms of a target
MaxForms == 2

PluralUnit(key, strings, fuzzy, obsolete, plural) ==
    [ key |-> key, target |-> strings[1], strings |-> strings, fuzzy |-> fuzzy,
      obsolete |-> obsolete, plural |-> plural, locations |-> <<>>, types |-> <<>>,
      dnotes |-> <<>>, tnotes |-> <<>>, prev_msgid |-> "" ]

hasplural(u) == u.plural

\* the units of key foo whose obsolete flag is in obsoletes
PluralUnits(obsoletes) ==
    { PluralUnit("foo", st, f, o, TRUE) :
        st \in UNION { [1..n -> {"", "A", "B"}] : n \in 1..MaxForms },
        f \in BOOLEAN, o \in obsoletes }
    \cup { PluralUnit("foo", st, f, o, FALSE) :
             st \in [1..1 -> {"", "A", "B"}], f \in BOOLEAN, o \in obsoletes }

\* deepcopy(unit), line 282: a new object equal to the unit, None for None
ObjClone(heap, unit) ==
    IF unit = None THEN [ heap |-> heap, ref |-> None ]
    ELSE [ heap |-> Append(heap, heap[unit[1]]), ref |-> Some(Len(heap) + 1) ]

\* the value of the object that empty_unit(template) makes, lines 346-350
ObjEmpty(template) ==
    PluralUnit(template.key, <<"">>, FALSE, FALSE, template.plural)

\* mutant of gettarget: the unit hands out the list of forms that it holds
gettarget_Stored(heap, unit) ==
    [ owner |-> unit, strings |-> heap[unit].strings ]

\* unit.target of pypo.pounit (FileClass, line 344): every read builds a new
\* multi-string from the unit's forms.  owner is the unit whose own list the
\* handle is, 0 when it is the list of no unit.
gettarget(heap, unit) ==
    [ owner |-> 0, strings |-> heap[unit].strings ]

\* _equal_translation on multi-string targets
EqualStrings(left, right) ==
    /\ left.strings = right.strings
    /\ (left.fuzzy = right.fuzzy \/ left.target = "")

\* set_translation_from on multi-string targets
SetStringsFrom(out, unit) ==
    [ out EXCEPT !.target = unit.target, !.strings = unit.strings,
                 !.prev_msgid = IF unit.prev_msgid # "" THEN unit.prev_msgid ELSE @,
                 !.fuzzy = unit.fuzzy ]

\* the list after `while len(ls) < n: ls.append(u"")`, lines 523-526
PadStrings(ls, n) ==
    [ i \in 1..Max({Len(ls), n}) |-> IF i <= Len(ls) THEN ls[i] ELSE "" ]

\* the heap after those appends to the list ls, grown to n forms: they are
\* appends to the forms of the unit that owns the list, if a unit does
AppendPadding(heap, ls, n) ==
    IF ls.owner = 0 THEN heap
    ELSE [ heap EXCEPT ![ls.owner].strings = PadStrings(ls.strings, n) ]

\* [tmpl % (l, r) for l, r in zip(ls, rs)], line 528
MarkerStrings(ls, rs, ctx) ==
    [ i \in 1..Len(ls) |->
        "#-#-#-#-#  " \o ctx.lfile \o " (" \o ctx.lproj \o ")  #-#-#-#-#\n"
            \o ls[i] \o "\n"
            \o "#-#-#-#-#  " \o ctx.rfile \o " (" \o ctx.rproj \o ")  #-#-#-#-#\n"
            \o rs[i] \o "\n" ]

\* _merge_target(out, base, local, remote) on references, lines 484-533:
\* returns [heap, c]
ObjMergeTarget(heap, out, b, l, r, ctx) ==
    LET adopt(u) ==
            [ heap |-> [ heap EXCEPT ![out] = SetStringsFrom(@, heap[u]) ], c |-> 0 ]
        marked(padded, lp, rp) ==
            [ heap |-> [ padded EXCEPT
                           ![out] = markfuzzy(
                               [ @ EXCEPT !.strings = IF hasplural(heap[l])
                                                      THEN MarkerStrings(lp, rp, ctx)
                                                      ELSE <<MarkerStrings(lp, rp, ctx)[1]>>,
                                          !.target = MarkerStrings(lp, rp, ctx)[1] ],
                               TRUE) ],
              c |-> 1 ]
        conflict(ls, rs) ==
            LET lp == PadStrings(ls.strings, Len(rs.strings))
                rp == PadStrings(rs.strings, Len(lp))
            IN  marked(AppendPadding(AppendPadding(heap, ls, Len(lp)), rs, Len(rp)),
                       lp, rp)
    IN  IF EqualStrings(heap[b], heap[l]) THEN adopt(r)
        ELSE IF EqualStrings(heap[b], heap[r]) THEN adopt(l)
        ELSE IF EqualStrings(heap[l], heap[r]) THEN adopt(l)
        ELSE IF Quality(heap[l]) > Quality(heap[r]) THEN adopt(l)
        ELSE IF Quality(heap[r]) > Quality(heap[l]) THEN adopt(r)
        ELSE conflict(gettarget(heap, l), gettarget(heap, r))

\* what a call on references returns: the reference of the returned unit
ObjResult(unit, c) == [ err |-> "", unit |-> unit, conflicts |-> c ]

\* _merge_unit(base, local, remote) on references, lines 372-404: returns
\* [heap, result]; out is a new object and every write goes to it
ObjMergeUnitInner(heap, b, l, r, ctx) ==
    LET out == Len(heap) + 1
        failed(e) == [ heap |-> heap, result |-> UnitError(e) ]
        header(made, h) ==
            IF h.err # "" THEN failed(h.err)
            ELSE [ heap   |-> [ made EXCEPT ![out] = [ h.out EXCEPT !.strings = <<h.out.target>> ] ],
                   result |-> ObjResult(Some(out), h.c) ]
        target(t) == [ heap |-> t.heap, result |-> ObjResult(Some(out), t.c) ]
        translated(made) ==
            IF isheader(made[l])
            THEN header(made, _merge_header(made[out], made[b], made[l], made[r], ctx))
            ELSE target(ObjMergeTarget(made, out, b, l, r, ctx))
        filled(locs, dn, tn, types, obs) ==
            IF locs.err # "" THEN failed(locs.err)
            ELSE IF dn.err # "" THEN failed(dn.err)
            ELSE IF tn.err # "" THEN failed(tn.err)
            ELSE IF types.err # "" THEN failed(types.err)
            ELSE IF obs.err # "" THEN failed(obs.err)
            ELSE translated(Append(heap,
                     [ ObjEmpty(heap[l]) EXCEPT !.locations = locs.val,
                                                !.dnotes = AddNotes(<<>>, dn.val),
                                                !.tnotes = AddNotes(<<>>, tn.val),
                                                !.types = types.val,
                                                !.obsolete = obs.val ]))
    IN  filled(merge_list(heap[b].locations, heap[l].locations, heap[r].locations),
               merge_list(NoteLines(heap[b].dnotes), NoteLines(heap[l].dnotes),
                          NoteLines(heap[r].dnotes)),
               merge_list(NoteLines(heap[b].tnotes), NoteLines(heap[l].tnotes),
                          NoteLines(heap[r].tnotes)),
               merge_list(heap[b].types, heap[l].types, heap[r].types),
               merge_simple(heap[b].obsolete, heap[l].obsolete, heap[r].obsolete))

\* merge_unit(base, local, remote) on references, lines 288-314; b, l, r are
\* None or <<reference>>; returns [heap, result]
ObjMergeUnit(heap, b, l, r, ctx) ==
    LET returned(c) == [ heap |-> c.heap, result |-> ObjResult(c.ref, 0) ]
        obsoleted(c) ==
            IF c.ref = None
            THEN [ heap |-> c.heap, result |-> UnitError("AttributeError") ]
            ELSE [ heap   |-> [ c.heap EXCEPT ![c.ref[1]] = makeobsolete(@) ],
                   result |-> ObjResult(c.ref, 0) ]
        deleted(c) == IF ~heap[b[1]].obsolete THEN obsoleted(c) ELSE returned(c)
    IN  IF b = None /\ l = None /\ r = None
        THEN [ heap |-> heap, result |-> UnitError("AssertionError") ]
        ELSE IF b = None
        THEN IF r = None THEN returned(ObjClone(heap, l))
             ELSE IF l = None THEN returned(ObjClone(heap, r))
             ELSE ObjMergeUnitInner(Append(heap, ObjEmpty(heap[l[1]])),
                                    Len(heap) + 1, l[1], r[1], ctx)
        ELSE IF r = None THEN deleted(ObjClone(heap, l))
        ELSE IF l = None THEN deleted(ObjClone(heap, r))
        ELSE ObjMergeUnitInner(heap, b[1], l[1], r[1], ctx)

InitPlural ==
    /\ base \in {None} \cup { Some(u) : u \in PluralUnits(BOOLEAN) }
    /\ local \in {None} \cup { Some(u) : u \in PluralUnits({FALSE}) }
    /\ remote \in {None} \cup { Some(u) : u \in PluralUnits({FALSE}) }
    /\ filename \in StoreFiles
    /\ MergerInit

\* the unit that reference unit stands for, None for None
Deref(heap, unit) == IF unit = None THEN None ELSE Some(heap[unit[1]])

\* merge_unit(base, local, remote) on a heap that holds the units handed in,
\* one after the other.  After the call base, local and remote are the units
\* their references stand for; result.object is the reference of the returned
\* unit and result.unit the unit itself.
MergePlural ==
    /\ pc = "call"
    /\ LET b == IF base = None THEN None ELSE Some(1)
           l == IF local = None THEN None ELSE Some(Len(base) + 1)
           r == IF remote = None THEN None ELSE Some(Len(base) + Len(local) + 1)
           called(m) ==
               /\ result' = [ err       |-> m.result.err,
                              unit      |-> Deref(m.heap, m.result.unit),
                              object    |-> m.result.unit,
                              conflicts |-> m.result.conflicts ]
               /\ base' = Deref(m.heap, b)
               /\ local' = Deref(m.heap, l)
               /\ remote' = Deref(m.heap, r)
       IN  called(ObjMergeUnit(base \o local \o remote, b, l, r,
                               StoreContext(<<>>, <<>>, filename)))
    /\ pc' = "done"
    /\ UNCHANGED <<old, new, filename, item_done, bw, lw, rw, emitted>>

SpecPlural == InitPlural /\ [][MergePlural]_vars

====
